---- MODULE Spec2Model ----
(***************************************************************************)
(* Model of main.py: the words demo that creates a wide-column table with  *)
(* a MaxVersions garbage-collection rule, bulk-loads one row per line of a *)
(* words file in batches, reads one row and a row range through a          *)
(* cells-per-column filter, then deletes the table.                        *)
(*                                                                         *)
(* Strings are modelled as sequences of byte values (ASCII code points),   *)
(* so that stripping, encoding, prefix tests and byte-lexicographic key    *)
(* order are computed, not assumed.                                        *)
(*                                                                         *)
(* The table service behind table.exists/create/mutate_rows/read_row/      *)
(* read_rows/delete is not part of main.py; its behaviour is modelled from *)
(* the store contracts of the specification (sections 4.1-4.5).            *)
(***************************************************************************)
EXTENDS Integers, Sequences, FiniteSets, TLC

(***************************************************************************)
(* Bounds of the model.                                                    *)
(***************************************************************************)
\* Longest words file read by a run of the single-run specification.
MaxLines == 4
\* Longest words file read by each run of the two-run specification.
MaxLinesTwo == 2
\* main.py:38 sets MUTATION_BATCHSIZE = 500.  The batching logic only
\* compares len(rows) with it, so the model checks the logic for a small
\* batch size; every formula is stated in terms of MUTATION_BATCHSIZE.
MUTATION_BATCHSIZE == 2

(***************************************************************************)
(* Program constants.                                                      *)
(***************************************************************************)
\* Fault variant: the rule retains one version too many.
MaxVersionsGCRule_Off == 2 + 1
\* column_family.MaxVersionsGCRule(2)
MaxVersionsGCRule == 2
\* Fault variant: the filter lets two cells per column through.
CellsColumnLimitFilter_Off == 1 + 1
\* row_filters.CellsColumnLimitFilter(1)
CellsColumnLimitFilter == 1

\* Fault variant: the point read asks for 'inter'.
ReadKey_Off == <<105, 110, 116, 101, 114>>
\* "internet".encode()
ReadKey == <<105, 110, 116, 101, 114, 110, 101, 116>>
\* 'inte'.encode()
ScanStartKey == <<105, 110, 116, 101>>
\* Fault variant: the scan ends at 'interneu', past 'internet'.
ScanEndKey_Off == <<105, 110, 116, 101, 114, 110, 101, 117>>
\* 'internet'.encode()
ScanEndKey == <<105, 110, 116, 101, 114, 110, 101, 116>>

\* 'att_letters'.encode() and 'att_shared_root_with_prev'.encode()
Columns == {"att_letters", "att_shared_root_with_prev"}

(***************************************************************************)
(* Inputs: the lines a words file may hold.  Each is a word followed by    *)
(* trailing whitespace: "ante\n", "inte \n", "inter\t\n", "internet\n".    *)
(* Blank lines (an empty row key) are outside the model.                   *)
(***************************************************************************)
Lines ==
    { <<97, 110, 116, 101, 10>>,
      <<105, 110, 116, 101, 32, 10>>,
      <<105, 110, 116, 101, 114, 9, 10>>,
      <<105, 110, 116, 101, 114, 110, 101, 116, 10>> }

\* Lines of the files of the two-run specification: "internet\n".
LinesTwo == { <<105, 110, 116, 101, 114, 110, 101, 116, 10>> }

Runs == {1, 2}

(***************************************************************************)
(* Pure helpers of _write_words.                                           *)
(***************************************************************************)
\* The characters str.rstrip() removes (ASCII whitespace).
Whitespace == {9, 10, 11, 12, 13, 28, 29, 30, 31, 32}

\* line.rstrip()
RECURSIVE RStrip(_)
RStrip(s) ==
    IF Len(s) > 0 /\ s[Len(s)] \in Whitespace
    THEN RStrip(SubSeq(s, 1, Len(s) - 1))
    ELSE s

\* str(n) for n >= 0, as ASCII digits.
RECURSIVE Str(_)
Str(n) ==
    IF n < 10 THEN << 48 + n >>
    ELSE Str(n \div 10) \o << 48 + (n % 10) >>

\* s.encode() for ASCII text: one byte per character, the code point.
Encode(s) == [i \in 1..Len(s) |-> s[i] % 256]

\* str(len(word)).encode()
AttLetters(word) == Encode(Str(Len(word)))

Min(a, b) == IF a <= b THEN a ELSE b

\* [i for i,j in zip(list(word), list(prev_word)) if i == j], joined.
RECURSIVE SharedFrom(_, _, _)
SharedFrom(word, prev_word, k) ==
    IF k > Min(Len(word), Len(prev_word)) THEN << >>
    ELSE (IF word[k] = prev_word[k] THEN << word[k] >> ELSE << >>)
         \o SharedFrom(word, prev_word, k + 1)

SharedWithPrev(word, prev_word) == SharedFrom(word, prev_word, 1)

\* The row mutation built for one line: direct_row(row_key) and two set_cell.
RowMutation(word, prev_word, tstamp) ==
    [ row_key |-> Encode(word),
      att_letters |-> AttLetters(word),
      att_shared_root_with_prev |-> Encode(SharedWithPrev(word, prev_word)),
      timestamp |-> tstamp ]

\* What _write_words returns: it has no return statement.
NoneValue == [kind |-> "None"]
IntValue(n) == [kind |-> "Int", val |-> n]
\* Fault variant: the function returns the number of lines.
WriteWordsResult_Count(n) == IntValue(n)
WriteWordsResult(n) == NoneValue

(***************************************************************************)
(* The table service.                                                      *)
(***************************************************************************)
\* Keys compare as raw byte sequences, lexicographically.
RECURSIVE BytesLess(_, _)
BytesLess(a, b) ==
    IF Len(b) = 0 THEN FALSE
    ELSE IF Len(a) = 0 THEN TRUE
    ELSE IF a[1] # b[1] THEN a[1] < b[1]
    ELSE BytesLess(Tail(a), Tail(b))

BytesLeq(a, b) == a = b \/ BytesLess(a, b)

\* put: insert a version, overwriting the one with the same timestamp.
PutCell(store, key, col, ts, val) ==
    { c \in store : ~(c.row = key /\ c.col = col /\ c.ts = ts) }
        \cup { [row |-> key, col |-> col, ts |-> ts, value |-> val] }

\* One row mutation applied: both set_cell writes, atomically.
ApplyMutation(store, m) ==
    PutCell(PutCell(store, m.row_key, "att_letters", m.timestamp, m.att_letters),
            m.row_key, "att_shared_root_with_prev", m.timestamp,
            m.att_shared_root_with_prev)

\* mutate_rows(rows): the row mutations applied in order.
RECURSIVE MutateRows(_, _)
MutateRows(store, rows) ==
    IF rows = << >> THEN store
    ELSE MutateRows(ApplyMutation(store, Head(rows)), Tail(rows))

RowKeys(store) == { c.row : c \in store }

Versions(store, key, col) == { c \in store : c.row = key /\ c.col = col }

\* The versions of a set of cells, newest first.
RECURSIVE NewestFirst(_)
NewestFirst(S) ==
    IF S = {} THEN << >>
    ELSE LET top == CHOOSE c \in S : \A d \in S : d.ts <= c.ts
         IN  << top >> \o NewestFirst(S \ {top})

FirstN(s, n) == SubSeq(s, 1, Min(n, Len(s)))

SeqRange(s) == { s[i] : i \in 1..Len(s) }

\* The row a read returns for key under a cells-per-column limit.
FilteredRow(store, key, limit) ==
    [ kind |-> "Row",
      row_key |-> key,
      cells |-> [ col \in { c.col : c \in { d \in store : d.row = key } } |->
                    FirstN(NewestFirst(Versions(store, key, col)), limit) ] ]

\* read_row(key, filter): the row, or None when the table holds no such row.
ReadRow(store, key, limit) ==
    IF key \in RowKeys(store) THEN FilteredRow(store, key, limit) ELSE NoneValue

\* The keys of a range scan: start inclusive, end exclusive.
KeysInRange(store, start, end) ==
    { k \in RowKeys(store) : BytesLeq(start, k) /\ BytesLess(k, end) }

RECURSIVE AscendingKeys(_)
AscendingKeys(K) ==
    IF K = {} THEN << >>
    ELSE LET lo == CHOOSE k \in K : \A j \in K : BytesLeq(k, j)
         IN  << lo >> \o AscendingKeys(K \ {lo})

\* read_rows(start_key, end_key, filter_): the rows of the range, ascending.
ReadRows(store, start, end, limit) ==
    LET ks == AscendingKeys(KeysInRange(store, start, end))
    IN  [ i \in 1..Len(ks) |-> FilteredRow(store, ks[i], limit) ]

\* MaxVersions(n) applied to one row: each column keeps its n newest cells.
GCRow(store, key, n) ==
    { c \in store : c.row # key }
        \cup UNION { SeqRange(FirstN(NewestFirst(Versions(store, key, col)), n)) :
                       col \in { c.col : c \in { d \in store : d.row = key } } }

\* _print_row: the first (most recent) cell of every column of the row.
PrintRow(row) ==
    [ row_key |-> row.row_key,
      values |-> [ col \in DOMAIN row.cells |-> row.cells[col][1].value ] ]


(***************************************************************************)
(* Control decisions of the program.                                       *)
(***************************************************************************)
\* Fault variant: the test of table.exists() is inverted.
ShouldCreate_Inverted(exists_result) == exists_result
\* if not table.exists(): table.create(...)
ShouldCreate(exists_result) == ~exists_result

\* Fault variant: the batch is submitted one row late.
BatchFull_Late(rs) == Len(rs) > MUTATION_BATCHSIZE
\* if len(rows) >= MUTATION_BATCHSIZE
BatchFull(rs) == Len(rs) >= MUTATION_BATCHSIZE

\* Fault variant: the rows pending at the end of the file are dropped.
HasPending_Never(rs) == FALSE
\* if len(rows) > 0 (after the loop)
HasPending(rs) == Len(rs) > 0

(***************************************************************************)
(* State.                                                                  *)
(***************************************************************************)
VARIABLES
    tableExists,  \* the table service: does the table exist
    gcRule,       \* the MaxVersions rule of family word_attributes (0: no table)
    createdBy,    \* the run whose table.create made the table (0: none)
    cells,        \* the stored cells [row, col, ts, value] of the family
    pc,           \* per run: the position in main
    file,         \* per run: the lines read from the words file so far
    stamps,       \* per run: the utcnow() instant taken for each line
    rows,         \* per run: the pending row mutations
    prev_word,    \* per run: prev_word
    batches,      \* per run: the lists passed to table.mutate_rows, in order
    ret,          \* per run: the value _write_words returned
    rowRead,      \* per run: the result of table.read_row
    scanned,      \* per run: the rows table.read_rows yielded
    printed,      \* per run: what _print_row printed, in order
    ops,          \* per run: the table calls made, each with the table's existence
    err           \* per run: the exception that ended the run ("" when none)

service == << tableExists, gcRule, createdBy, cells >>
writer  == << file, stamps, rows, prev_word, batches, ret >>
reader  == << rowRead, scanned, printed >>
vars == << tableExists, gcRule, createdBy, cells, pc, file, stamps, rows,
           prev_word, batches, ret, rowRead, scanned, printed, ops, err >>

\* A table left by an earlier run: row 'internet' written at instant 1.
PreExistingCells ==
    ApplyMutation({}, RowMutation(<<105, 110, 116, 101, 114, 110, 101, 116>>, << >>, 1))

\* The rule of a table that existed before the run.
PreExistingRules == {3}

NotStarted == [kind |-> "NotStarted"]

InitService ==
    \/ /\ tableExists = FALSE
       /\ gcRule = 0
       /\ cells = {}
    \/ /\ tableExists = TRUE
       /\ gcRule \in PreExistingRules
       /\ cells = PreExistingCells

InitRuns(started) ==
    /\ createdBy = 0
    /\ pc = [r \in Runs |-> IF r \in started THEN "start" ELSE "idle"]
    /\ file = [r \in Runs |-> << >>]
    /\ stamps = [r \in Runs |-> << >>]
    /\ rows = [r \in Runs |-> << >>]
    /\ prev_word = [r \in Runs |-> << >>]
    /\ batches = [r \in Runs |-> << >>]
    /\ ret = [r \in Runs |-> NotStarted]
    /\ rowRead = [r \in Runs |-> NotStarted]
    /\ scanned = [r \in Runs |-> << >>]
    /\ printed = [r \in Runs |-> << >>]
    /\ ops = [r \in Runs |-> << >>]
    /\ err = [r \in Runs |-> ""]

\* One run of main.
Init == InitService /\ InitRuns({1})

\* Two runs of main against the same table id.
InitTwo == InitService /\ InitRuns(Runs)

Call(name) == [op |-> name, table |-> tableExists]

\* A table call that the service rejects ends the run with an exception.
Raise(r, name, error) ==
    /\ pc' = [pc EXCEPT ![r] = "raised"]
    /\ err' = [err EXCEPT ![r] = error]
    /\ ops' = [ops EXCEPT ![r] = Append(@, Call(name))]

(***************************************************************************)
(* main: table.exists() and table.create().                                *)
(***************************************************************************)
MainExists(r) ==
    /\ pc[r] = "start"
    /\ ops' = [ops EXCEPT ![r] = Append(@, Call("exists"))]
    /\ pc' = [pc EXCEPT ![r] = IF ShouldCreate(tableExists) THEN "create" ELSE "write"]
    /\ UNCHANGED << service, writer, reader, err >>

MainCreate(r) ==
    /\ pc[r] = "create"
    /\ IF tableExists
       THEN /\ Raise(r, "create", "AlreadyExists")
            /\ UNCHANGED << service, writer, reader >>
       ELSE /\ tableExists' = TRUE
            /\ gcRule' = MaxVersionsGCRule
            /\ createdBy' = r
            /\ cells' = {}
            /\ ops' = [ops EXCEPT ![r] = Append(@, Call("create"))]
            /\ pc' = [pc EXCEPT ![r] = "write"]
            /\ UNCHANGED << writer, reader, err >>

(***************************************************************************)
(* _write_words: one iteration of the loop, and the end of the file.       *)
(***************************************************************************)
\* utcnow(): the wall clock does not run backwards within a run; two lines
\* may be stamped with the same instant.
Now(r) ==
    LET last == IF stamps[r] = << >> THEN 1 ELSE stamps[r][Len(stamps[r])]
    IN  {last, last + 1}

\* table.mutate_rows(rs) by run r, then control moves to next.
Submit(r, rs, next) ==
    IF tableExists
    THEN /\ cells' = MutateRows(cells, rs)
         /\ batches' = [batches EXCEPT ![r] = Append(@, rs)]
         /\ ops' = [ops EXCEPT ![r] = Append(@, Call("mutate_rows"))]
         /\ pc' = [pc EXCEPT ![r] = next]
         /\ UNCHANGED err
    ELSE /\ Raise(r, "mutate_rows", "NotFound")
         /\ UNCHANGED << cells, batches >>

WriteLine(r, lineSet, maxLines) ==
    /\ pc[r] = "write"
    /\ Len(file[r]) < maxLines
    /\ \E line \in lineSet, tstamp \in Now(r) :
         LET word == RStrip(line)
             row  == RowMutation(word, prev_word[r], tstamp)
             rs   == Append(rows[r], row)
         IN  /\ file' = [file EXCEPT ![r] = Append(@, line)]
             /\ stamps' = [stamps EXCEPT ![r] = Append(@, tstamp)]
             /\ prev_word' = [prev_word EXCEPT ![r] = word]
             /\ IF BatchFull(rs)
                THEN /\ Submit(r, rs, "write")
                     /\ rows' = [rows EXCEPT ![r] = << >>]
                ELSE /\ rows' = [rows EXCEPT ![r] = rs]
                     /\ UNCHANGED << cells, batches, ops, pc, err >>
    /\ UNCHANGED << tableExists, gcRule, createdBy, ret, reader >>

EndOfFile(r) ==
    /\ pc[r] = "write"
    /\ IF HasPending(rows[r])
       THEN Submit(r, rows[r], "read_row")
       ELSE /\ pc' = [pc EXCEPT ![r] = "read_row"]
            /\ UNCHANGED << cells, batches, ops, err >>
    /\ ret' = [ret EXCEPT ![r] =
                 IF pc'[r] = "read_row" THEN WriteWordsResult(Len(file[r])) ELSE @]
    /\ rows' = [rows EXCEPT ![r] = << >>]
    /\ UNCHANGED << tableExists, gcRule, createdBy, file, stamps, prev_word, reader >>

(***************************************************************************)
(* main: read_row, the read_rows scan, table.delete().                     *)
(***************************************************************************)
MainReadRow(r) ==
    /\ pc[r] = "read_row"
    /\ IF tableExists
       THEN LET row == ReadRow(cells, ReadKey, CellsColumnLimitFilter)
            IN  /\ rowRead' = [rowRead EXCEPT ![r] = row]
                /\ printed' = [printed EXCEPT ![r] =
                                 IF row # NoneValue THEN Append(@, PrintRow(row)) ELSE @]
                /\ ops' = [ops EXCEPT ![r] = Append(@, Call("read_row"))]
                /\ pc' = [pc EXCEPT ![r] = "read_rows"]
                /\ UNCHANGED << scanned, err >>
       ELSE /\ Raise(r, "read_row", "NotFound")
            /\ UNCHANGED reader
    /\ UNCHANGED << service, writer >>

MainScan(r) ==
    /\ pc[r] = "read_rows"
    /\ IF tableExists
       THEN LET partial_rows ==
                    ReadRows(cells, ScanStartKey, ScanEndKey, CellsColumnLimitFilter)
            IN  /\ scanned' = [scanned EXCEPT ![r] = partial_rows]
                /\ printed' = [printed EXCEPT ![r] =
                                 @ \o [i \in 1..Len(partial_rows) |->
                                         PrintRow(partial_rows[i])]]
                /\ ops' = [ops EXCEPT ![r] = Append(@, Call("read_rows"))]
                /\ pc' = [pc EXCEPT ![r] = "delete"]
                /\ UNCHANGED << rowRead, err >>
       ELSE /\ Raise(r, "read_rows", "NotFound")
            /\ UNCHANGED reader
    /\ UNCHANGED << service, writer >>

MainDelete(r) ==
    /\ pc[r] = "delete"
    /\ IF tableExists
       THEN /\ tableExists' = FALSE
            /\ gcRule' = 0
            /\ createdBy' = 0
            /\ cells' = {}
            /\ ops' = [ops EXCEPT ![r] = Append(@, Call("delete"))]
            /\ pc' = [pc EXCEPT ![r] = "done"]
            /\ UNCHANGED err
       ELSE /\ Raise(r, "delete", "NotFound")
            /\ UNCHANGED service
    /\ UNCHANGED << writer, reader >>

(***************************************************************************)
(* The service's garbage collection of one row under the family's rule.    *)
(***************************************************************************)
GarbageCollect(key) ==
    /\ tableExists
    /\ key \in RowKeys(cells)
    /\ cells' = GCRow(cells, key, gcRule)
    /\ cells' # cells
    /\ UNCHANGED << tableExists, gcRule, createdBy, pc, writer, reader, ops, err >>

ServerStep == \E key \in RowKeys(cells) : GarbageCollect(key)

MainStep(r, lineSet, maxLines) ==
    \/ MainExists(r)
    \/ MainCreate(r)
    \/ WriteLine(r, lineSet, maxLines)
    \/ EndOfFile(r)
    \/ MainReadRow(r)
    \/ MainScan(r)
    \/ MainDelete(r)

Next ==
    \/ MainStep(1, Lines, MaxLines)
    \/ ServerStep

NextTwo ==
    \/ \E r \in Runs : MainStep(r, LinesTwo, MaxLinesTwo)
    \/ ServerStep

Spec == Init /\ [][Next]_vars

SpecTwo == InitTwo /\ [][NextTwo]_vars


(***************************************************************************)
(* Helpers of the properties.                                              *)
(***************************************************************************)
RECURSIVE Flatten(_)
Flatten(ss) == IF ss = << >> THEN << >> ELSE Head(ss) \o Flatten(Tail(ss))

IsPrefix(p, w) == Len(p) <= Len(w) /\ SubSeq(w, 1, Len(p)) = p

\* The word on line i of the file run r has read, and the word before it.
WordAt(r, i) == RStrip(file[r][i])
PrevWordAt(r, i) == IF i = 1 THEN << >> ELSE WordAt(r, i - 1)

\* The row mutation _write_words builds for line i.
MutationAt(r, i) == RowMutation(WordAt(r, i), PrevWordAt(r, i), stamps[r][i])

\* _write_words has returned in run r.
Returned(r) == pc[r] \in {"read_row", "read_rows", "delete", "done"}

\* ceil(n / MUTATION_BATCHSIZE)
CeilBatches(n) == (n + MUTATION_BATCHSIZE - 1) \div MUTATION_BATCHSIZE

OpNames(r) == [i \in 1..Len(ops[r]) |-> ops[r][i].op]

Repeat(x, n) == [i \in 1..n |-> x]

\* The byte strings 'internet' and 'inte' as the claims name them.
Internet == <<105, 110, 116, 101, 114, 110, 101, 116>>
Inte == <<105, 110, 116, 101>>

(***************************************************************************)
(* C1: every list passed to mutate_rows is non-empty and holds at most     *)
(* MUTATION_BATCHSIZE row mutations, every list but the last holds exactly *)
(* MUTATION_BATCHSIZE, and a file of n lines makes ceil(n /                *)
(* MUTATION_BATCHSIZE) calls (none for an empty file).                     *)
(***************************************************************************)
C1_BatchSizes ==
    \A r \in Runs :
        /\ \A i \in 1..Len(batches[r]) :
              /\ Len(batches[r][i]) >= 1
              /\ Len(batches[r][i]) <= MUTATION_BATCHSIZE
              /\ i < Len(batches[r]) => Len(batches[r][i]) = MUTATION_BATCHSIZE
        /\ Returned(r) => Len(batches[r]) = CeilBatches(Len(file[r]))

\* A finished run that made several calls, the last with a short list.
C1_Witness ==
    /\ pc[1] = "done"
    /\ Len(batches[1]) >= 2
    /\ Len(batches[1][Len(batches[1])]) < MUTATION_BATCHSIZE

(***************************************************************************)
(* C2: when _write_words has returned, the submitted batches concatenated  *)
(* in submission order are the row mutations of the file's lines in file   *)
(* order, none lost, duplicated or left pending, and every word of the     *)
(* file is a row of the table.                                             *)
(***************************************************************************)
C2_AllSubmittedOnce ==
    \A r \in Runs :
        Returned(r) =>
            /\ Flatten(batches[r]) = [i \in 1..Len(file[r]) |-> MutationAt(r, i)]
            /\ rows[r] = << >>
            /\ pc[r] # "done" =>
                 \A i \in 1..Len(file[r]) : Encode(WordAt(r, i)) \in RowKeys(cells)

\* The file did not end on a batch boundary: the last rows went out after the loop.
C2_Witness ==
    /\ pc[1] = "read_row"
    /\ Len(file[1]) > MUTATION_BATCHSIZE
    /\ Len(file[1]) % MUTATION_BATCHSIZE # 0

(***************************************************************************)
(* C3, as stated: _write_words returns the count of words written, n for a *)
(* file of n lines.                                                        *)
(***************************************************************************)
C3_ReturnsCount ==
    \A r \in Runs : Returned(r) => ret[r] = IntValue(Len(file[r]))

(***************************************************************************)
(* C3, amended: _write_words returns no value (None) for a file of any     *)
(* length; the count n of words written is the number of row mutations it  *)
(* submitted, not its result.                                              *)
(***************************************************************************)
C3_ReturnsNone ==
    \A r \in Runs :
        Returned(r) =>
            /\ ret[r] = NoneValue
            /\ Len(Flatten(batches[r])) = Len(file[r])

\* _write_words has returned after writing a file of several lines.
C3_Witness ==
    /\ pc[1] = "read_row"
    /\ Len(file[1]) >= 2
    /\ ret[1] = NoneValue

(***************************************************************************)
(* C4: a single run makes its table calls in the order exists, create      *)
(* (exactly when exists returned false), the mutate_rows batches,          *)
(* read_row, read_rows, delete; the table exists at every mutate_rows,     *)
(* read_row and read_rows call; and when main finishes the table does not  *)
(* exist, whether main created it or found it.                             *)
(***************************************************************************)
\* The table calls run r has made by its current position.
C4_ExpectedCalls(r) ==
    << "exists" >>
      \o (IF ops[r][1].table THEN << >> ELSE << "create" >>)
      \o Repeat("mutate_rows", Len(batches[r]))
      \o (IF Returned(r) /\ pc[r] # "read_row" THEN << "read_row" >> ELSE << >>)
      \o (IF pc[r] \in {"delete", "done"} THEN << "read_rows" >> ELSE << >>)
      \o (IF pc[r] = "done" THEN << "delete" >> ELSE << >>)

\* C4: the calls of the single run are the expected ones in order, the table
\* exists at every data call, and it does not exist once main has finished.
C4_CallOrder ==
    /\ err[1] = ""
    /\ pc[1] \in {"write", "read_row", "read_rows", "delete", "done"} =>
          OpNames(1) = C4_ExpectedCalls(1)
    /\ \A i \in 1..Len(ops[1]) :
          ops[1][i].op \in {"mutate_rows", "read_row", "read_rows", "delete"}
              => ops[1][i].table
    /\ pc[1] = "done" => ~tableExists

\* A finished run that created the table and wrote several batches.
C4_Witness ==
    /\ pc[1] = "done"
    /\ Len(ops[1]) >= 2
    /\ ops[1][2].op = "create"
    /\ Len(batches[1]) >= 2

(***************************************************************************)
(* C5: the range scan returns exactly the rows whose key k satisfies       *)
(* 'inte' <= k < 'internet' in byte order, ascending; the start key is     *)
(* included, the end key excluded, so row 'internet' is never scanned.     *)
(***************************************************************************)
C5_ScanRange ==
    \A r \in Runs :
        LET ks == [i \in 1..Len(scanned[r]) |-> scanned[r][i].row_key]
        IN  /\ \A i \in 1..Len(ks) : ks[i] # Internet
            /\ \A i, j \in 1..Len(ks) : i < j => BytesLess(ks[i], ks[j])
            /\ pc[r] = "delete" =>
                 SeqRange(ks) =
                   { k \in RowKeys(cells) :
                       ~BytesLess(k, Inte) /\ BytesLess(k, Internet) }

\* The table holds 'ante', 'inte', 'inter' and 'internet'; the read found
\* 'internet' and the scan returned 'inte' and 'inter'.
C5_Witness ==
    /\ pc[1] = "delete"
    /\ rowRead[1] # NoneValue
    /\ Len(scanned[1]) = 2
    /\ scanned[1][1].row_key = Inte
    /\ \E k \in RowKeys(cells) : BytesLess(k, Inte)


(***************************************************************************)
(* C6: a read through CellsColumnLimitFilter(1) returns, for each column   *)
(* of a row, exactly one version, the one with the greatest timestamp, and *)
(* the filtered read_row and read_rows calls leave the stored cells        *)
(* unchanged: a row holding several versions still holds them all.         *)
(***************************************************************************)
\* One cell per stored column of the row, the one with the greatest timestamp.
C6_NewestOnly(row) ==
    /\ DOMAIN row.cells = { c.col : c \in { d \in cells : d.row = row.row_key } }
    /\ \A col \in DOMAIN row.cells :
          /\ Len(row.cells[col]) = 1
          /\ row.cells[col][1] \in Versions(cells, row.row_key, col)
          /\ \A d \in Versions(cells, row.row_key, col) :
                d.ts <= row.cells[col][1].ts

\* The rows returned by read_row and by the scan, against the stored cells.
C6_FilterReturned ==
    /\ (pc[1] = "read_rows" /\ rowRead[1] # NoneValue) => C6_NewestOnly(rowRead[1])
    /\ pc[1] = "delete" =>
          \A i \in 1..Len(scanned[1]) : C6_NewestOnly(scanned[1][i])

C7_GCKeepsTwoNewest ==
    (tableExists /\ createdBy # 0) =>
        \A key \in RowKeys(cells) :
            LET after == GCRow(cells, key, gcRule)
            IN  /\ \A col \in Columns :
                      LET before == Versions(cells, key, col)
                          kept   == Versions(after, key, col)
                      IN  IF Cardinality(before) > 2
                          THEN /\ kept \subseteq before
                               /\ Cardinality(kept) = 2
                               /\ \A x \in kept, y \in before \ kept : x.ts > y.ts
                          ELSE kept = before
                /\ { c \in after : c.row # key } = { c \in cells : c.row # key }

\* A word was written at three instants into the table main created, and
\* garbage collection has left two versions of it.
C7_Witness ==
    /\ createdBy = 1
    /\ tableExists
    /\ Returned(1)
    /\ \E i, j, k \in 1..Len(file[1]) :
          /\ WordAt(1, i) = WordAt(1, j) /\ WordAt(1, j) = WordAt(1, k)
          /\ stamps[1][i] < stamps[1][j] /\ stamps[1][j] < stamps[1][k]
          /\ { c.ts : c \in Versions(cells, Encode(WordAt(1, i)), "att_letters") }
                = { stamps[1][j], stamps[1][k] }

(***************************************************************************)
(* C8: read_row('internet') returns a row exactly when the table holds a   *)
(* row with key 'internet'; when 'internet' is a line of the file just     *)
(* written the row carries the values written for it; when there is no     *)
(* such row the result is None, not an error: main prints nothing for it   *)
(* and goes on to the range scan and the table delete.                     *)
(***************************************************************************)
C8_PointRead ==
    /\ pc[1] = "read_rows" =>
          /\ (rowRead[1] # NoneValue) <=> (Internet \in RowKeys(cells))
          /\ rowRead[1] # NoneValue => rowRead[1].row_key = Internet
          /\ (\E i \in 1..Len(file[1]) : Encode(WordAt(1, i)) = Internet) =>
                /\ rowRead[1] # NoneValue
                /\ \E i \in 1..Len(file[1]) :
                      LET m == MutationAt(1, i)
                      IN  /\ m.row_key = Internet
                          /\ \A col \in Columns :
                                /\ rowRead[1].cells[col][1].ts = m.timestamp
                                /\ rowRead[1].cells[col][1].value = m[col]
          /\ rowRead[1] = NoneValue => printed[1] = << >>
    /\ rowRead[1] = NoneValue =>
          /\ err[1] = ""
          /\ pc[1] \in {"read_rows", "delete", "done"}
          /\ \A i \in 1..Len(printed[1]) : printed[1][i].row_key # Internet
          /\ pc[1] = "done" =>
                SubSeq(OpNames(1), Len(ops[1]) - 2, Len(ops[1]))
                    = << "read_row", "read_rows", "delete" >>

\* A finished run whose file had lines but not 'internet': the read was absent.
C8_Witness ==
    /\ pc[1] = "done"
    /\ rowRead[1] = NoneValue
    /\ Len(file[1]) >= 1
    /\ Len(printed[1]) >= 1

(***************************************************************************)
(* C9: no run of main calls table.create on a table that already exists,   *)
(* in a single run and in every interleaving of two runs against the same  *)
(* table id.                                                               *)
(***************************************************************************)
C9_NeverCreatesExisting ==
    \A r \in Runs :
        \A i \in 1..Len(ops[r]) : ops[r][i].op = "create" => ~ops[r][i].table

(***************************************************************************)
(* C10: the value written to att_shared_root_with_prev for a line is a     *)
(* shared root of the word and the word on the preceding line: a prefix of *)
(* both (empty for the first line), the preceding word being the previous  *)
(* line of the file even across a batch boundary.                          *)
(***************************************************************************)
C10_SharedRootIsPrefix ==
    \A r \in Runs :
        LET ms == Flatten(batches[r])
        IN  \A i \in 1..Len(ms) :
                /\ IsPrefix(ms[i].att_shared_root_with_prev, Encode(WordAt(r, i)))
                /\ IsPrefix(ms[i].att_shared_root_with_prev, Encode(PrevWordAt(r, i)))

====
